---- MODULE Spec2Model ----
(***************************************************************************)
(* Model of src/main.py: the websocket subscription/notification relay.    *)
(*                                                                         *)
(* Two specifications share the manager operators:                         *)
(*   Spec     - the event loop: one ws_tables_endpoint session per         *)
(*              websocket, its two wait_first tasks, the peers and the     *)
(*              change source calling notify.                              *)
(*   SpecMgr  - the SubscriptionConnectionManager driven call by call      *)
(*              (any sequence of its public methods, one call at a time).  *)
(*                                                                         *)
(* asyncio is cooperative: code between two awaits is one atomic step.     *)
(* asyncio.wait is modelled as on Python 3.8-3.10, where the coroutines    *)
(* passed to it are wrapped in tasks.                                      *)
(***************************************************************************)
EXTENDS Integers, Sequences, FiniteSets, TLC

\* ---- bounds ----
MaxConns == 2
MaxTopics == 2
MaxNotify == 2
MaxText == 1
MaxCalls == 5

Conns == 1..MaxConns
Topics == 1..MaxTopics

VARIABLES
    active_connections, \* ConnectionManager.active_connections (list)
    subscriptions,      \* dict id -> list of websockets
    pending_notify,     \* list of ids
    pc,                 \* position of each websocket's ws_tables_endpoint
    sid,                \* the id query parameter of each session
    poller,             \* state of the session's wait_for_changes task
    recv,               \* state of the session's receive_text task
    inbox,              \* what the peer has sent and receive() not yet taken
    gone,               \* the connection is closed (by the peer or the server)
    bidx,               \* position of broadcast_to's list iterator (1-based)
    exc,                \* exception that ended the session
    failedOn,           \* history: websocket whose send_json raised in this session's broadcast
    delivered,          \* history: payloads received by each peer
    nnotify,            \* history: notify calls per id
    epoch,              \* history: times an id went from absent to present in pending_notify
    drains,             \* history: returns of each session's wait_for_changes
    cycles,             \* history: broadcast_to calls made by each session
    markBase,           \* history: delivered[c] when the last notify of c's id found c blocked, else -1
    ntext,              \* history: text frames sent by peers
    bsent,              \* history: websockets the session's current broadcast_to has sent to, in order
    bstay,              \* history: websockets in the id's list since the current broadcast_to began
    lastCall,           \* SpecMgr: the last manager call and its outcome
    sent,               \* SpecMgr: websockets the last broadcast_to sent to, in order
    subscribed,         \* SpecMgr history: per id, websockets whose last subscribe/unsubscribe call was subscribe
    ncalls              \* SpecMgr history: number of calls made

sessVars == <<pc, sid, poller, recv, inbox, gone, bidx, exc, failedOn, delivered,
              nnotify, epoch, drains, cycles, markBase, ntext, bsent, bstay>>
mgrVars == <<lastCall, sent, subscribed, ncalls>>
vars == <<active_connections, subscriptions, pending_notify, pc, sid, poller, recv,
          inbox, gone, bidx, exc, failedOn, delivered, nnotify, epoch, drains,
          cycles, markBase, ntext, bsent, bstay, lastCall, sent, subscribed, ncalls>>

\* ---- Python list helpers ----
Contains(s, x) == \E i \in 1..Len(s) : s[i] = x

Count(s, x) == Cardinality({i \in 1..Len(s) : s[i] = x})

FirstIndex(s, x) == CHOOSE i \in 1..Len(s) : s[i] = x /\ \A j \in 1..(i-1) : s[j] # x

\* list.remove(x): deletes the first occurrence (the caller checks Contains)
ListRemove(s, x) ==
    LET k == FirstIndex(s, x)
    IN  [i \in 1..(Len(s)-1) |-> IF i < k THEN s[i] ELSE s[i+1]]

RECURSIVE Total(_, _)
\* f[1] + ... + f[n]
Total(f, n) == IF n = 0 THEN 0 ELSE f[n] + Total(f, n - 1)

\* ---- manager methods (values in, values out) ----
\* ConnectionManager.connect after accept() returned
connect(ac, ws) == Append(ac, ws)

\* ConnectionManager.disconnect: list.remove raises ValueError when absent
disconnect_raises(ac, ws) == ~Contains(ac, ws)

disconnect(ac, ws) == IF Contains(ac, ws) THEN ListRemove(ac, ws) ELSE ac

\* subscribe_to with the else lost: a new id gets its list and the append runs too
subscribe_to_no_else(subs, ws, id) ==
    IF id \in DOMAIN subs
    THEN [subs EXCEPT ![id] = Append(@, ws)]
    ELSE [k \in (DOMAIN subs) \cup {id} |-> IF k = id THEN <<ws, ws>> ELSE subs[k]]

subscribe_to(subs, ws, id) ==
    IF id \in DOMAIN subs
    THEN [subs EXCEPT ![id] = Append(@, ws)]
    ELSE [k \in (DOMAIN subs) \cup {id} |-> IF k = id THEN <<ws>> ELSE subs[k]]

unsubscribe_raises(subs, ws, id) == id \in DOMAIN subs /\ ~Contains(subs[id], ws)

unsubscribe_from(subs, ws, id) ==
    IF id \in DOMAIN subs /\ Contains(subs[id], ws)
    THEN [subs EXCEPT ![id] = ListRemove(@, ws)]
    ELSE subs

\* the list broadcast_to iterates (empty when the id has no entry)
broadcast_list(subs, id) == IF id \in DOMAIN subs THEN subs[id] ELSE <<>>

NoCall == [op |-> "none", ws |-> 0, id |-> 0, present |-> FALSE, raised |-> "none",
           again |-> FALSE]

Init ==
    /\ active_connections = <<>>
    /\ subscriptions = <<>>
    /\ pending_notify = <<>>
    /\ pc = [c \in Conns |-> "new"]
    /\ sid = [c \in Conns |-> 0]
    /\ poller = [c \in Conns |-> "none"]
    /\ recv = [c \in Conns |-> "none"]
    /\ inbox = [c \in Conns |-> "none"]
    /\ gone = [c \in Conns |-> FALSE]
    /\ bidx = [c \in Conns |-> 0]
    /\ exc = [c \in Conns |-> "none"]
    /\ failedOn = [c \in Conns |-> 0]
    /\ delivered = [c \in Conns |-> 0]
    /\ nnotify = [t \in Topics |-> 0]
    /\ epoch = [t \in Topics |-> 0]
    /\ drains = [c \in Conns |-> 0]
    /\ cycles = [c \in Conns |-> 0]
    /\ markBase = [c \in Conns |-> -1]
    /\ ntext = 0
    /\ bsent = [c \in Conns |-> <<>>]
    /\ bstay = [c \in Conns |-> {}]
    /\ lastCall = NoCall
    /\ sent = <<>>
    /\ subscribed = [t \in Topics |-> {}]
    /\ ncalls = 0

\* ---- the except WebSocketDisconnect handler of ws_tables_endpoint ----
\* manager.disconnect(websocket) then manager.unsubscribe_from(websocket, id);
\* a ValueError from either list.remove leaves the handler at that point.
handler_raises(ac, subs, ws, id) ==
    disconnect_raises(ac, ws) \/ unsubscribe_raises(subs, ws, id)

handler_active(ac, ws) == disconnect(ac, ws)

\* a handler that only calls manager.disconnect and forgets unsubscribe_from
handler_subs_forgotten(ac, subs, ws, id) == subs

handler_subs(ac, subs, ws, id) ==
    IF disconnect_raises(ac, ws) THEN subs ELSE unsubscribe_from(subs, ws, id)

\* a session blocked in asyncio.wait with both tasks still pending
Blocked(c) == pc[c] = "waiting" /\ poller[c] = "running" /\ recv[c] = "pending"

\* ---- Spec: the endpoint, its tasks, the peers, the change source ----

\* ids are opaque keys and websockets opaque objects: they are numbered in the
\* order in which they first appear (websocket c is the c-th to connect, id t the
\* t-th id to be named by a client or by the change source)
Fresh(t) == \A u \in 1..(t-1) : nnotify[u] > 0 \/ \E c \in Conns : sid[c] = u

\* a client opens ws://.../tables?id=t: the endpoint starts and suspends in accept()
Start(c, t) ==
    /\ pc[c] = "new"
    /\ \A d \in 1..(c-1) : pc[d] # "new"
    /\ Fresh(t)
    /\ pc' = [pc EXCEPT ![c] = "accepting"]
    /\ sid' = [sid EXCEPT ![c] = t]
    /\ UNCHANGED <<active_connections, subscriptions, pending_notify, poller, recv, inbox,
                   gone, bidx, exc, failedOn, delivered, nnotify, epoch, drains, cycles,
                   markBase, ntext>>
    /\ UNCHANGED <<bsent, bstay>>
    /\ UNCHANGED mgrVars

\* accept() returns: connect appends, subscribe_to runs without suspending, and the
\* first wait_first creates its two tasks and suspends in asyncio.wait
AcceptOk(c) ==
    /\ pc[c] = "accepting"
    /\ active_connections' = connect(active_connections, c)
    /\ subscriptions' = subscribe_to(subscriptions, c, sid[c])
    /\ pc' = [pc EXCEPT ![c] = "waiting"]
    /\ poller' = [poller EXCEPT ![c] = "running"]
    /\ recv' = [recv EXCEPT ![c] = "pending"]
    /\ UNCHANGED <<pending_notify, sid, inbox, gone, bidx, exc, failedOn, delivered,
                   nnotify, epoch, drains, cycles, markBase, ntext>>
    /\ UNCHANGED <<bsent, bstay>>
    /\ UNCHANGED mgrVars

\* a connect that appends before awaiting accept(): the websocket is registered
\* although the handshake fails
AcceptFail_append_first(c) ==
    /\ pc[c] = "accepting"
    /\ active_connections' = connect(active_connections, c)
    /\ pc' = [pc EXCEPT ![c] = "failed"]
    /\ exc' = [exc EXCEPT ![c] = "err"]
    /\ gone' = [gone EXCEPT ![c] = TRUE]
    /\ UNCHANGED <<subscriptions, pending_notify, sid, poller, recv,
                   inbox, bidx, failedOn, delivered, nnotify, epoch, drains, cycles,
                   markBase, ntext>>
    /\ UNCHANGED <<bsent, bstay>>
    /\ UNCHANGED mgrVars

\* accept() raises: the exception leaves connect and the endpoint
AcceptFail(c) ==
    /\ pc[c] = "accepting"
    /\ pc' = [pc EXCEPT ![c] = "failed"]
    /\ exc' = [exc EXCEPT ![c] = "err"]
    /\ gone' = [gone EXCEPT ![c] = TRUE]
    /\ UNCHANGED <<active_connections, subscriptions, pending_notify, sid, poller, recv,
                   inbox, bidx, failedOn, delivered, nnotify, epoch, drains, cycles,
                   markBase, ntext>>
    /\ UNCHANGED <<bsent, bstay>>
    /\ UNCHANGED mgrVars

\* the peer of an open connection sends a text frame ("text"), closes ("disc"),
\* or sends a frame receive_text cannot return as text ("err")
PeerSend(c, ev) ==
    /\ pc[c] \in {"waiting", "delivering"}
    /\ ~gone[c]
    /\ inbox[c] = "none"
    /\ ev = "text" => ntext < MaxText
    /\ inbox' = [inbox EXCEPT ![c] = ev]
    /\ gone' = [gone EXCEPT ![c] = (ev = "disc")]
    /\ ntext' = IF ev = "text" THEN ntext + 1 ELSE ntext
    /\ UNCHANGED <<active_connections, subscriptions, pending_notify, pc, sid, poller,
                   recv, bidx, exc, failedOn, delivered, nnotify, epoch, drains, cycles,
                   markBase>>
    /\ UNCHANGED <<bsent, bstay>>
    /\ UNCHANGED mgrVars

\* the receive_text task takes what the peer sent: a text result, WebSocketDisconnect,
\* or another exception
receive_text(c) ==
    /\ recv[c] = "pending"
    /\ inbox[c] # "none"
    /\ recv' = [recv EXCEPT ![c] = inbox[c]]
    /\ inbox' = [inbox EXCEPT ![c] = "none"]
    /\ UNCHANGED <<active_connections, subscriptions, pending_notify, pc, sid, poller,
                   gone, bidx, exc, failedOn, delivered, nnotify, epoch, drains, cycles,
                   markBase, ntext>>
    /\ UNCHANGED <<bsent, bstay>>
    /\ UNCHANGED mgrVars

\* a poller that clears every occurrence of its id (a filter instead of list.remove)
wait_for_changes_all(c) ==
    /\ poller[c] = "running"
    /\ Contains(pending_notify, sid[c])
    /\ pending_notify' = SelectSeq(pending_notify, LAMBDA t : t # sid[c])
    /\ poller' = [poller EXCEPT ![c] = "done"]
    /\ drains' = [drains EXCEPT ![c] = @ + 1]
    /\ UNCHANGED <<active_connections, subscriptions, pc, sid, recv, inbox, gone, bidx,
                   exc, failedOn, delivered, nnotify, epoch, cycles, markBase, ntext>>
    /\ UNCHANGED <<bsent, bstay>>
    /\ UNCHANGED mgrVars

\* a poller that takes whatever id is at the head of pending_notify (pop(0))
\* instead of removing its own id
wait_for_changes_head(c) ==
    /\ poller[c] = "running"
    /\ Len(pending_notify) > 0
    /\ pending_notify' = Tail(pending_notify)
    /\ poller' = [poller EXCEPT ![c] = "done"]
    /\ drains' = [drains EXCEPT ![c] = @ + 1]
    /\ UNCHANGED <<active_connections, subscriptions, pc, sid, recv, inbox, gone, bidx,
                   exc, failedOn, delivered, nnotify, epoch, cycles, markBase, ntext>>
    /\ UNCHANGED <<bsent, bstay>>
    /\ UNCHANGED mgrVars

\* one poll of the wait_for_changes task that finds its id: list.remove and return
\* (a poll that does not find it sleeps 0.3 s and changes nothing)
wait_for_changes(c) ==
    /\ poller[c] = "running"
    /\ Contains(pending_notify, sid[c])
    /\ pending_notify' = ListRemove(pending_notify, sid[c])
    /\ poller' = [poller EXCEPT ![c] = "done"]
    /\ drains' = [drains EXCEPT ![c] = @ + 1]
    /\ UNCHANGED <<active_connections, subscriptions, pc, sid, recv, inbox, gone, bidx,
                   exc, failedOn, delivered, nnotify, epoch, cycles, markBase, ntext>>
    /\ UNCHANGED <<bsent, bstay>>
    /\ UNCHANGED mgrVars

\* manager.notify(id), called by the change source
notify(t) ==
    /\ Total(nnotify, MaxTopics) < MaxNotify
    /\ Fresh(t)
    /\ pending_notify' = Append(pending_notify, t)
    /\ nnotify' = [nnotify EXCEPT ![t] = @ + 1]
    /\ epoch' = IF Contains(pending_notify, t) THEN epoch ELSE [epoch EXCEPT ![t] = @ + 1]
    /\ markBase' = [c \in Conns |->
                      IF sid[c] = t
                      THEN (IF Blocked(c) /\ ~gone[c] /\ Contains(broadcast_list(subscriptions, t), c)
                            THEN delivered[c] ELSE -1)
                      ELSE markBase[c]]
    /\ UNCHANGED <<active_connections, subscriptions, pc, sid, poller, recv, inbox, gone,
                   bidx, exc, failedOn, delivered, drains, cycles, ntext>>
    /\ UNCHANGED <<bsent, bstay>>
    /\ UNCHANGED mgrVars

\* the session leaves its loop: the server closes the websocket
EndSession(c, how, e) ==
    /\ pc' = [pc EXCEPT ![c] = how]
    /\ exc' = [exc EXCEPT ![c] = e]
    /\ gone' = [gone EXCEPT ![c] = TRUE]
    /\ UNCHANGED markBase

\* the endpoint catches WebSocketDisconnect (lines 111-114)
RunHandler(c) ==
    /\ active_connections' = handler_active(active_connections, c)
    /\ subscriptions' = handler_subs(active_connections, subscriptions, c, sid[c])
    /\ IF handler_raises(active_connections, subscriptions, c, sid[c])
       THEN EndSession(c, "crashed", "ValueError")
       ELSE EndSession(c, "closed", "disc")
    /\ bstay' = [b \in Conns |-> IF sid[b] = sid[c] THEN bstay[b] \ {c} ELSE bstay[b]]

\* wait_first resumes from asyncio.wait with the tasks that are done by then.
\* A done task's exception is raised at line 76, before lines 78-83 cancel anything.
wait_first_disconnect(c) ==
    /\ pc[c] = "waiting"
    /\ recv[c] = "disc"
    /\ RunHandler(c)
    /\ UNCHANGED <<pending_notify, sid, poller, recv, inbox, bidx, failedOn, delivered,
                   nnotify, epoch, drains, cycles, ntext>>
    /\ UNCHANGED bsent
    /\ UNCHANGED mgrVars

\* the receive task ended with an exception that is not WebSocketDisconnect:
\* nothing catches it, the endpoint ends without running the handler
wait_first_error(c) ==
    /\ pc[c] = "waiting"
    /\ recv[c] = "err"
    /\ EndSession(c, "crashed", "err")
    /\ UNCHANGED <<active_connections, subscriptions, pending_notify, sid, poller, recv,
                   inbox, bidx, failedOn, delivered, nnotify, epoch, drains, cycles, ntext>>
    /\ UNCHANGED <<bsent, bstay>>
    /\ UNCHANGED mgrVars

\* no done task has an exception: the pending one is cancelled and awaited, a result
\* is returned, and the loop body goes on to broadcast_to (lines 106-109)
wait_first_return(c) ==
    /\ pc[c] = "waiting"
    /\ poller[c] = "done" \/ recv[c] = "text"
    /\ recv[c] \notin {"disc", "err"}
    /\ poller' = [poller EXCEPT ![c] = IF @ = "running" THEN "cancelled" ELSE @]
    /\ recv' = [recv EXCEPT ![c] = IF @ = "pending" THEN "cancelled" ELSE @]
    /\ pc' = [pc EXCEPT ![c] = "delivering"]
    /\ bidx' = [bidx EXCEPT ![c] = 1]
    /\ cycles' = [cycles EXCEPT ![c] = @ + 1]
    /\ UNCHANGED <<active_connections, subscriptions, pending_notify, sid, inbox, gone,
                   exc, failedOn, delivered, nnotify, epoch, drains, markBase, ntext>>
    /\ bsent' = [bsent EXCEPT ![c] = <<>>]
    /\ bstay' = [bstay EXCEPT ![c] =
                    {broadcast_list(subscriptions, sid[c])[i] :
                        i \in 1..Len(broadcast_list(subscriptions, sid[c]))}]
    /\ UNCHANGED mgrVars

\* broadcast_to: the iterator yields the next websocket and send_json succeeds
\* (to a closed connection the frame may also be dropped without an error)
broadcast_send(c) ==
    /\ pc[c] = "delivering"
    /\ bidx[c] <= Len(broadcast_list(subscriptions, sid[c]))
    /\ LET x == broadcast_list(subscriptions, sid[c])[bidx[c]]
       IN  delivered' = IF gone[x] THEN delivered ELSE [delivered EXCEPT ![x] = @ + 1]
    /\ bidx' = [bidx EXCEPT ![c] = @ + 1]
    /\ UNCHANGED <<active_connections, subscriptions, pending_notify, pc, sid, poller,
                   recv, inbox, gone, exc, failedOn, nnotify, epoch, drains, cycles,
                   markBase, ntext>>
    /\ bsent' = [bsent EXCEPT ![c] = Append(@, broadcast_list(subscriptions, sid[c])[bidx[c]])]
    /\ UNCHANGED bstay
    /\ UNCHANGED mgrVars

\* send_json to a closed connection raises WebSocketDisconnect: it leaves the for
\* loop and broadcast_to, and the endpoint's handler runs for the broadcasting session
broadcast_fail_disconnect(c) ==
    /\ pc[c] = "delivering"
    /\ bidx[c] <= Len(broadcast_list(subscriptions, sid[c]))
    /\ gone[broadcast_list(subscriptions, sid[c])[bidx[c]]]
    /\ failedOn' = [failedOn EXCEPT ![c] = broadcast_list(subscriptions, sid[c])[bidx[c]]]
    /\ RunHandler(c)
    /\ UNCHANGED <<pending_notify, sid, poller, recv, inbox, bidx, delivered, nnotify,
                   epoch, drains, cycles, ntext>>
    /\ UNCHANGED bsent
    /\ UNCHANGED mgrVars

\* send_json to a closed connection raises another exception: nothing catches it
broadcast_fail_error(c) ==
    /\ pc[c] = "delivering"
    /\ bidx[c] <= Len(broadcast_list(subscriptions, sid[c]))
    /\ gone[broadcast_list(subscriptions, sid[c])[bidx[c]]]
    /\ failedOn' = [failedOn EXCEPT ![c] = broadcast_list(subscriptions, sid[c])[bidx[c]]]
    /\ EndSession(c, "crashed", "err")
    /\ UNCHANGED <<active_connections, subscriptions, pending_notify, sid, poller, recv,
                   inbox, bidx, delivered, nnotify, epoch, drains, cycles, ntext>>
    /\ UNCHANGED <<bsent, bstay>>
    /\ UNCHANGED mgrVars

\* the iterator is exhausted: broadcast_to returns, the loop calls wait_first again,
\* which creates two new tasks and suspends
broadcast_end(c) ==
    /\ pc[c] = "delivering"
    /\ bidx[c] > Len(broadcast_list(subscriptions, sid[c]))
    /\ pc' = [pc EXCEPT ![c] = "waiting"]
    /\ poller' = [poller EXCEPT ![c] = "running"]
    /\ recv' = [recv EXCEPT ![c] = "pending"]
    /\ bidx' = [bidx EXCEPT ![c] = 0]
    /\ UNCHANGED <<active_connections, subscriptions, pending_notify, sid, inbox, gone,
                   exc, failedOn, delivered, nnotify, epoch, drains, cycles, markBase, ntext>>
    /\ bsent' = [bsent EXCEPT ![c] = <<>>]
    /\ bstay' = [bstay EXCEPT ![c] = {}]
    /\ UNCHANGED mgrVars

Next ==
    \/ \E c \in Conns, t \in Topics : Start(c, t)
    \/ \E c \in Conns : AcceptOk(c)
    \/ \E c \in Conns : AcceptFail(c)
    \/ \E c \in Conns, ev \in {"text", "disc", "err"} : PeerSend(c, ev)
    \/ \E c \in Conns : receive_text(c)
    \/ \E c \in Conns : wait_for_changes(c)
    \/ \E t \in Topics : notify(t)
    \/ \E c \in Conns : wait_first_disconnect(c)
    \/ \E c \in Conns : wait_first_error(c)
    \/ \E c \in Conns : wait_first_return(c)
    \/ \E c \in Conns : broadcast_send(c)
    \/ \E c \in Conns : broadcast_fail_disconnect(c)
    \/ \E c \in Conns : broadcast_fail_error(c)
    \/ \E c \in Conns : broadcast_end(c)

Spec == Init /\ [][Next]_vars

\* ---- SpecMgr: the manager's methods called one at a time, in any order ----
Called(op, ws, id, present, raised) ==
    /\ lastCall' = [op |-> op, ws |-> ws, id |-> id, present |-> present, raised |-> raised,
                    again |-> FALSE]
    /\ ncalls' = ncalls + 1

MgrConnect(ws) ==
    /\ ncalls < MaxCalls
    /\ active_connections' = connect(active_connections, ws)
    /\ Called("connect", ws, 0, Contains(active_connections, ws), "none")
    /\ UNCHANGED <<subscriptions, pending_notify, sent, subscribed>>
    /\ UNCHANGED sessVars

MgrDisconnect(ws) ==
    /\ ncalls < MaxCalls
    /\ active_connections' = disconnect(active_connections, ws)
    /\ Called("disconnect", ws, 0, Contains(active_connections, ws),
              IF disconnect_raises(active_connections, ws) THEN "ValueError" ELSE "none")
    /\ UNCHANGED <<subscriptions, pending_notify, sent, subscribed>>
    /\ UNCHANGED sessVars

MgrSubscribe(ws, id) ==
    /\ ncalls < MaxCalls
    /\ subscriptions' = subscribe_to(subscriptions, ws, id)
    /\ subscribed' = [subscribed EXCEPT ![id] = @ \cup {ws}]
    /\ Called("subscribe_to", ws, id, Contains(broadcast_list(subscriptions, id), ws), "none")
    /\ UNCHANGED <<active_connections, pending_notify, sent>>
    /\ UNCHANGED sessVars

MgrUnsubscribe(ws, id) ==
    /\ ncalls < MaxCalls
    /\ subscriptions' = unsubscribe_from(subscriptions, ws, id)
    /\ subscribed' = [subscribed EXCEPT ![id] = @ \ {ws}]
    /\ Called("unsubscribe_from", ws, id, Contains(broadcast_list(subscriptions, id), ws),
              IF unsubscribe_raises(subscriptions, ws, id) THEN "ValueError" ELSE "none")
    /\ UNCHANGED <<active_connections, pending_notify, sent>>
    /\ UNCHANGED sessVars

\* broadcast_to run to completion with every send_json succeeding
MgrBroadcast(id) ==
    /\ ncalls < MaxCalls
    /\ sent' = broadcast_list(subscriptions, id)
    /\ Called("broadcast_to", 0, id, id \in DOMAIN subscriptions, "none")
    /\ UNCHANGED <<active_connections, subscriptions, pending_notify, subscribed>>
    /\ UNCHANGED sessVars

\* session teardown as the endpoint's handler runs it: manager.disconnect(ws), then
\* manager.unsubscribe_from(ws, id). "again" records that the call before this one
\* was the same teardown and raised nothing.
MgrTeardown(ws, id) ==
    /\ ncalls < MaxCalls
    /\ active_connections' = handler_active(active_connections, ws)
    /\ subscriptions' = handler_subs(active_connections, subscriptions, ws, id)
    /\ subscribed' = IF disconnect_raises(active_connections, ws)
                     THEN subscribed
                     ELSE [subscribed EXCEPT ![id] = @ \ {ws}]
    /\ lastCall' = [op |-> "teardown", ws |-> ws, id |-> id,
                    present |-> Contains(active_connections, ws),
                    raised |-> IF handler_raises(active_connections, subscriptions, ws, id)
                               THEN "ValueError" ELSE "none",
                    again |-> (lastCall.op = "teardown" /\ lastCall.ws = ws
                               /\ lastCall.id = id /\ lastCall.raised = "none")]
    /\ ncalls' = ncalls + 1
    /\ UNCHANGED <<pending_notify, sent>>
    /\ UNCHANGED sessVars

NextMgr ==
    \/ \E ws \in Conns : MgrConnect(ws)
    \/ \E ws \in Conns : MgrDisconnect(ws)
    \/ \E ws \in Conns, id \in Topics : MgrSubscribe(ws, id)
    \/ \E ws \in Conns, id \in Topics : MgrUnsubscribe(ws, id)
    \/ \E id \in Topics : MgrBroadcast(id)
    \/ \E ws \in Conns, id \in Topics : MgrTeardown(ws, id)

SpecMgr == Init /\ [][NextMgr]_vars

\* ---- notions the claims use ----
Alive(c) == pc[c] \in {"waiting", "delivering"} /\ ~gone[c]

InIndex(c) == \E t \in DOMAIN subscriptions : Contains(subscriptions[t], c)

\* no delivery cycle for id t is pending or under way: t has no pending mark, and no
\* session of t is in broadcast_to or about to return from wait_first
Quiet(t) ==
    /\ ~Contains(pending_notify, t)
    /\ \A c \in Conns : sid[c] = t =>
          /\ pc[c] # "delivering"
          /\ ~(pc[c] = "waiting" /\ (poller[c] = "done" \/ recv[c] = "text"))

\* C1: whenever wait_first has completed (the session is no longer suspended in it),
\* neither of the two raced tasks is still runnable; in particular the
\* wait_for_changes poller of a session that ended on a disconnect is not running.
C1_LoserNotRunnable ==
    \A c \in Conns : pc[c] # "waiting" => poller[c] # "running" /\ recv[c] # "pending"

\* C2: two connected sessions of one id were both blocked when the only notify of
\* that id was called: each receives at most one delivery after it, and exactly one
\* once the mark's delivery cycle is over.
C2_OneDeliveryEach ==
    \A c \in Conns, d \in Conns :
        (/\ c # d /\ sid[c] = sid[d] /\ sid[c] \in Topics
         /\ nnotify[sid[c]] = 1
         /\ markBase[c] >= 0 /\ markBase[d] >= 0
         /\ Alive(c) /\ Alive(d))
        => /\ delivered[c] - markBase[c] <= 1
           /\ Quiet(sid[c]) => delivered[c] - markBase[c] = 1

\* C3: marks made while the id is already pending collapse into one change, so a
\* session's wait_for_changes returns at most once per change of its id.
C3_MarksCollapse ==
    \A c \in Conns : sid[c] \in Topics => drains[c] <= epoch[sid[c]]

\* C5: a connection that was blocked on its id when notify was called and is still
\* connected has received a payload once no delivery cycle for the id remains
\* (the state in which "eventually" has run out without another notify).
C5_MarkDelivered ==
    \A c \in Conns :
        (markBase[c] >= 0 /\ Alive(c) /\ Quiet(sid[c])) => delivered[c] > markBase[c]

\* C6: a session closed by its peer's disconnect while waiting has its websocket in
\* neither list, and if its id was never marked no payload was delivered for that id.
C6_DisconnectWhileWaiting ==
    \A c \in Conns :
        (pc[c] = "closed" /\ recv[c] = "disc") =>
            /\ ~Contains(active_connections, c)
            /\ ~InIndex(c)
            /\ nnotify[sid[c]] = 0 => \A x \in Conns : sid[x] = sid[c] => delivered[x] = 0

\* C7: a send_json failure on another session's websocket does not end the session
\* that is broadcasting.
C7_SendFailureIsolated ==
    \A b \in Conns :
        (failedOn[b] # 0 /\ failedOn[b] # b) => pc[b] \notin {"closed", "crashed"}

\* C8: a session whose receive branch won with an error other than
\* WebSocketDisconnect ends closed, with its websocket removed from both lists and
\* no exception leaving the endpoint.
C8_AbnormalCloseCleansUp ==
    \A c \in Conns :
        (recv[c] = "err" /\ pc[c] # "waiting") =>
            /\ pc[c] = "closed"
            /\ ~Contains(active_connections, c)
            /\ ~InIndex(c)

\* C4: broadcast_to sends to exactly the websockets whose last subscribe_to /
\* unsubscribe_from call for that id was a subscribe_to.
C4_FanoutIffSubscribed ==
    lastCall.op = "broadcast_to" =>
        {sent[i] : i \in 1..Len(sent)} = subscribed[lastCall.id]

\* C9: subscribe_to of a websocket already in the id's list leaves one entry for it.
C9_SubscribeIdempotent ==
    (lastCall.op = "subscribe_to" /\ lastCall.present) =>
        Count(subscriptions[lastCall.id], lastCall.ws) = 1

\* C10: unsubscribe_from of a websocket that is not in the id's list raises nothing.
C10_UnsubscribeAbsentIsNoop ==
    (lastCall.op = "unsubscribe_from" /\ ~lastCall.present) => lastCall.raised = "none"

\* C11: topic isolation. A payload reaches a connection only in a step of a
\* broadcast_to run by a session of the connection's own id, and a return of
\* wait_for_changes leaves the pending entries of every other id as they were.
C11_TopicIsolation ==
    [][/\ \A x \in Conns :
             delivered'[x] # delivered[x] =>
                 \E b \in Conns : pc[b] = "delivering" /\ sid[b] = sid[x]
       /\ \A c \in Conns :
             drains'[c] # drains[c] =>
                 \A t \in Topics \ {sid[c]} :
                     Count(pending_notify', t) = Count(pending_notify, t)]_vars

\* an id-2 mark has been drained and delivered to an id-2 connection while a mark
\* of id 1 is pending and an open id-1 connection has received nothing
C11_Witness ==
    \E x \in Conns, y \in Conns :
        /\ sid[x] = 1 /\ sid[y] = 2
        /\ Alive(x) /\ delivered[x] = 0
        /\ drains[y] > 0 /\ delivered[y] > 0
        /\ Contains(pending_notify, 1)

\* C12: a session runs a delivery cycle only after its own wait_for_changes drained
\* a mark of its id, so its delivery cycles never exceed its drains nor the notify
\* calls for its id.
C12_DeliverOnlyOnChange ==
    \A c \in Conns :
        sid[c] \in Topics => cycles[c] <= drains[c] /\ cycles[c] <= nnotify[sid[c]]

\* C13: when broadcast_to's iterator is exhausted, every websocket that was in the
\* id's list from the start of this broadcast_to until now has been sent the payload
\* exactly once by it.
C13_BroadcastToleratesMutation ==
    \A b \in Conns :
        (pc[b] = "delivering" /\ bidx[b] > Len(broadcast_list(subscriptions, sid[b]))) =>
            \A x \in bstay[b] : Count(bsent[b], x) = 1

\* C14: running the session teardown a second time, right after a first run that
\* raised nothing, raises nothing either.
C14_TeardownIdempotent ==
    (lastCall.op = "teardown" /\ lastCall.again) => lastCall.raised = "none"

\* C15: in every state of the event loop a websocket is at most once in
\* active_connections and at most once in each id's subscriber list.
C15_AtMostOnce ==
    \A c \in Conns :
        /\ Count(active_connections, c) <= 1
        /\ \A t \in DOMAIN subscriptions : Count(subscriptions[t], c) <= 1

\* two websockets have subscribed to one id, a mark was delivered, and one of them
\* has been torn down while the other is still in both lists
C15_Witness ==
    \E c \in Conns, d \in Conns :
        /\ c # d /\ sid[c] = sid[d]
        /\ pc[c] = "closed" /\ delivered[d] > 0 /\ nnotify[sid[d]] > 0
        /\ Count(active_connections, d) = 1
        /\ Count(subscriptions[sid[d]], d) = 1

\* C16: the step in which a session's handshake fails changes none of
\* active_connections, subscriptions and pending_notify, and a session that ended
\* this way has its websocket in neither list.
C16_HandshakeFailure ==
    [][\A c \in Conns :
          pc'[c] = "failed" =>
              /\ ~Contains(active_connections', c)
              /\ \A t \in DOMAIN subscriptions' : ~Contains(subscriptions'[t], c)
              /\ pc[c] # "failed" =>
                    /\ active_connections' = active_connections
                    /\ subscriptions' = subscriptions
                    /\ pending_notify' = pending_notify]_vars

\* a handshake failed while another websocket is subscribed and a mark is pending
C16_Witness ==
    \E c \in Conns, d \in Conns :
        /\ pc[c] = "failed" /\ pc[d] = "waiting"
        /\ Contains(active_connections, d) /\ InIndex(d)
        /\ Len(pending_notify) > 0

\* C17: a wait_for_changes task that has removed a mark belongs to a session that is
\* about to run, or is running, the delivery cycle for it (sessions ended by a
\* failed send inside that delivery cycle aside).
C17_NoSilentConsume ==
    \A c \in Conns :
        (poller[c] = "done" /\ failedOn[c] = 0) => pc[c] \in {"waiting", "delivering"}

\* C18: in every state (each is a suspension point of the event loop) a websocket
\* is in active_connections exactly when it is in the subscriber list of its
\* session's id.
C18_RegistryIndexAgree ==
    \A c \in Conns :
        Contains(active_connections, c)
            <=> Contains(broadcast_list(subscriptions, sid[c]), c)

\* one websocket has been torn down (in neither list) while another of the same id
\* is in both
C18_Witness ==
    \E c \in Conns, d \in Conns :
        /\ sid[c] = sid[d]
        /\ pc[c] = "closed" /\ ~Contains(active_connections, c) /\ ~InIndex(c)
        /\ pc[d] = "waiting" /\ Contains(active_connections, d) /\ InIndex(d)

RECURSIVE DrainsUpTo(_, _)
\* returns of wait_for_changes(t) by the sessions 1..n
DrainsUpTo(t, n) ==
    IF n = 0 THEN 0
    ELSE (IF sid[n] = t THEN drains[n] ELSE 0) + DrainsUpTo(t, n - 1)

DrainsFor(t) == DrainsUpTo(t, MaxConns)

\* C19: every return of a wait_for_changes(id) found id pending and removed exactly
\* one occurrence of it and nothing else, in a step in which no other waiter
\* returned; and the returns for an id never outnumber the notify calls for it.
C19_AtomicCheckThenRemove ==
    [][/\ \A c \in Conns :
             drains'[c] # drains[c] =>
                 /\ drains'[c] = drains[c] + 1
                 /\ poller'[c] = "done"
                 /\ Count(pending_notify, sid[c]) >= 1
                 /\ Count(pending_notify', sid[c]) = Count(pending_notify, sid[c]) - 1
                 /\ Len(pending_notify') = Len(pending_notify) - 1
                 /\ \A d \in Conns \ {c} : drains'[d] = drains[d]
       /\ \A t \in Topics : DrainsFor(t)' <= nnotify'[t]]_vars

\* two waiters of one id raced for its two marks: one has taken one occurrence, the
\* other is still polling and one occurrence is left
C19_Witness ==
    \E c \in Conns, d \in Conns :
        /\ c # d /\ sid[c] = sid[d]
        /\ pc[c] = "waiting" /\ poller[c] = "done"
        /\ pc[d] = "waiting" /\ poller[d] = "running"
        /\ nnotify[sid[c]] = 2
        /\ Count(pending_notify, sid[c]) = 1

\* C20: the occurrences of an id in pending_notify are its notify calls minus the
\* returns of wait_for_changes for it, and an occurrence is only ever removed by the
\* poller of a session that is waiting on that id, so that a mark made while no
\* session waits on the id stays pending for the next one.
C20_MarksConserved ==
    [][\A t \in Topics :
          /\ Count(pending_notify', t) = nnotify'[t] - DrainsFor(t)'
          /\ Count(pending_notify', t) < Count(pending_notify, t) =>
                \E c \in Conns :
                    sid[c] = t /\ pc[c] = "waiting" /\ drains'[c] = drains[c] + 1]_vars

====
